---- MODULE Spec2Model ----
(***************************************************************************)
(* Model of examples/simple_usage.py: the script entry point runs main()   *)
(* (Examples 1-5) and then pandas_example().  Every external client        *)
(* operation either returns or raises an Exception; the choice is made     *)
(* when the call is reached.  The model records every external call and    *)
(* every printed line, in order, in the history variable trace.            *)
(***************************************************************************)
EXTENDS Naturals, Sequences, FiniteSets

VARIABLES pc, client, outcome, trace, exc, returned

vars == <<pc, client, outcome, trace, exc, returned>>

(* The external call sites of the script, by the example that owns them.   *)
GlobalSites == {"predict1", "predictP"}
BoundSites == {"list_models", "predict2a", "predict2b", "predict3",
               "predict4a", "predict4b", "health_check", "get_model_info"}
Sites == GlobalSites \cup BoundSites \cup {"construct", "to_pandas"}

(* An external operation returns or raises an Exception.                   *)
Outcomes == {"ok", "raise"}

(* One external call: what is the call site, inst the client instance the  *)
(* bound method is called on (0 for calls that use no client instance).    *)
CallEv(ex, site, inst) ==
    [ex |-> ex, kind |-> "call", what |-> site, inst |-> inst, of |-> site]

(* One print statement: what is the kind of line, of the call site whose   *)
(* response or exception the line shows ("" when it shows neither).        *)
Line(ex, what, of) ==
    [ex |-> ex, kind |-> "print", what |-> what, inst |-> 0, of |-> of]

(* except Exception as e: print(f"Error: {e}")                             *)
ErrorLine(ex, site) == Line(ex, "error", site)

(* Variant of After: the blocks of Examples 3 and 4 in exchanged order.    *)
After_Exchanged(ex) ==
    CASE ex = 1 -> "ex2_header"
      [] ex = 2 -> "ex4_header"
      [] ex = 4 -> "ex3_header"
      [] ex = 3 -> "ex5_header"
      [] ex = 5 -> "main_epilogue"
      [] ex = 6 -> "pandas_return"

(* The statement executed after the try/except of example ex.              *)
After(ex) ==
    CASE ex = 1 -> "ex2_header"
      [] ex = 2 -> "ex3_header"
      [] ex = 3 -> "ex4_header"
      [] ex = 4 -> "ex5_header"
      [] ex = 5 -> "main_epilogue"
      [] ex = 6 -> "pandas_return"

Init ==
    /\ pc = "script_start"
    /\ client = 0
    /\ outcome = [s \in Sites |-> "none"]
    /\ trace = << >>
    /\ exc = "none"
    /\ returned = {}

(* __main__ block: operator message, blank line, call main().              *)
ScriptStart ==
    /\ pc = "script_start"
    /\ trace' = trace \o <<Line(0, "operator_message", ""), Line(0, "blank", "")>>
    /\ pc' = "main_prologue"
    /\ UNCHANGED <<client, outcome, exc, returned>>

(* main(): title and rule.                                                 *)
MainPrologue ==
    /\ pc = "main_prologue"
    /\ trace' = trace \o <<Line(0, "title", ""), Line(0, "rule", "")>>
    /\ pc' = "ex1_header"
    /\ UNCHANGED <<client, outcome, exc, returned>>

(* Example 1: header, rule, input data.                                    *)
Ex1Header ==
    /\ pc = "ex1_header"
    /\ trace' = trace \o <<Line(1, "header", ""), Line(1, "rule", ""),
                           Line(1, "input", "")>>
    /\ pc' = "ex1_predict"
    /\ UNCHANGED <<client, outcome, exc, returned>>

(* Example 1: try: predict(...); three success lines / except: error line. *)
Ex1Predict ==
    /\ pc = "ex1_predict"
    /\ \E r \in Outcomes :
         /\ outcome' = [outcome EXCEPT !["predict1"] = r]
         /\ trace' = trace \o <<CallEv(1, "predict1", 0)>> \o
                (IF r = "ok"
                 THEN <<Line(1, "forecast", "predict1"),
                        Line(1, "model", "predict1"),
                        Line(1, "metadata", "predict1")>>
                 ELSE <<ErrorLine(1, "predict1")>>)
    /\ pc' = After(1)
    /\ UNCHANGED <<client, exc, returned>>

(* Example 2: header and rule.                                             *)
Ex2Header ==
    /\ pc = "ex2_header"
    /\ trace' = trace \o <<Line(2, "header", ""), Line(2, "rule", "")>>
    /\ pc' = "ex2_construct"
    /\ UNCHANGED <<client, outcome, exc, returned>>

(* client = SimpleTSFMClient(): outside every try block, so an Exception   *)
(* leaves main() and the script; the interpreter exits with a traceback.   *)
Ex2Construct ==
    /\ pc = "ex2_construct"
    /\ \E r \in Outcomes :
         /\ outcome' = [outcome EXCEPT !["construct"] = r]
         /\ trace' = trace \o <<CallEv(2, "construct", 0)>>
         /\ IF r = "ok"
            THEN /\ client' = client + 1
                 /\ pc' = "ex2_list_models"
                 /\ exc' = exc
            ELSE /\ client' = client
                 /\ pc' = "exit"
                 /\ exc' = "construct"
    /\ UNCHANGED returned

(* Variant of Ex2ListModels: list_models guarded by a try/except of its    *)
(* own, so the rest of Example 2 still runs after its failure.             *)
Ex2ListModels_OwnGuard ==
    /\ pc = "ex2_list_models"
    /\ \E r \in Outcomes :
         /\ outcome' = [outcome EXCEPT !["list_models"] = r]
         /\ trace' = trace \o <<CallEv(2, "list_models", client)>> \o
                (IF r = "ok"
                 THEN <<Line(2, "models", "list_models")>>
                 ELSE <<Line(2, "error", "list_models")>>)
         /\ pc' = "ex2_predict"
    /\ UNCHANGED <<client, exc, returned>>

(* Example 2: models = client.list_models(); print / except: error line.   *)
(* The bound calls below are reached only through the "ok" branch of       *)
(* Ex2Construct, so client names an instance whenever they run.            *)
Ex2ListModels ==
    /\ pc = "ex2_list_models"
    /\ \E r \in Outcomes :
         /\ outcome' = [outcome EXCEPT !["list_models"] = r]
         /\ trace' = trace \o <<CallEv(2, "list_models", client)>> \o
                (IF r = "ok"
                 THEN <<Line(2, "models", "list_models")>>
                 ELSE <<ErrorLine(2, "list_models")>>)
         /\ pc' = IF r = "ok" THEN "ex2_predict" ELSE After(2)
    /\ UNCHANGED <<client, exc, returned>>

(* Example 2: response = client.predict([1..10]); simple forecast line.    *)
Ex2Predict ==
    /\ pc = "ex2_predict"
    /\ \E r \in Outcomes :
         /\ outcome' = [outcome EXCEPT !["predict2a"] = r]
         /\ trace' = trace \o <<CallEv(2, "predict2a", client)>> \o
                (IF r = "ok"
                 THEN <<Line(2, "forecast", "predict2a")>>
                 ELSE <<ErrorLine(2, "predict2a")>>)
         /\ pc' = IF r = "ok" THEN "ex2_predict_ci" ELSE After(2)
    /\ UNCHANGED <<client, exc, returned>>

(* Example 2: client.predict(confidence_intervals=True); forecast line,    *)
(* and the interval line when response.confidence_intervals is truthy.     *)
Ex2PredictCI ==
    /\ pc = "ex2_predict_ci"
    /\ \E r \in Outcomes, ci \in BOOLEAN :
         /\ r = "raise" => ~ci
         /\ outcome' = [outcome EXCEPT !["predict2b"] = r]
         /\ trace' = trace \o <<CallEv(2, "predict2b", client)>> \o
                (IF r = "ok"
                 THEN <<Line(2, "forecast", "predict2b")>> \o
                      (IF ci THEN <<Line(2, "intervals", "predict2b")>>
                             ELSE << >>)
                 ELSE <<ErrorLine(2, "predict2b")>>)
    /\ pc' = After(2)
    /\ UNCHANGED <<client, exc, returned>>

(* Example 3: header and rule.                                             *)
Ex3Header ==
    /\ pc = "ex3_header"
    /\ trace' = trace \o <<Line(3, "header", ""), Line(3, "rule", "")>>
    /\ pc' = "ex3_prepare"
    /\ UNCHANGED <<client, outcome, exc, returned>>

(* Example 3: build the local pandas Series, print its shape and sample.   *)
Ex3Prepare ==
    /\ pc = "ex3_prepare"
    /\ trace' = trace \o <<Line(3, "shape", ""), Line(3, "sample", "")>>
    /\ pc' = "ex3_predict"
    /\ UNCHANGED <<client, outcome, exc, returned>>

(* Variant of Ex3Predict: a failed predict is issued a second time before  *)
(* the failure is reported.                                                *)
Ex3Predict_Retry ==
    /\ pc = "ex3_predict"
    /\ \E r \in Outcomes :
         /\ outcome' = [outcome EXCEPT !["predict3"] = r]
         /\ trace' = trace \o <<CallEv(3, "predict3", client)>> \o
                (IF r = "ok"
                 THEN <<Line(3, "forecast", "predict3")>>
                 ELSE <<CallEv(3, "predict3", client),
                        Line(3, "error", "predict3")>>)
    /\ pc' = After(3)
    /\ UNCHANGED <<client, exc, returned>>

(* Variant of Ex3Predict: Example 3 constructs a client of its own and     *)
(* rebinds the name.                                                       *)
Ex3Predict_FreshClient ==
    /\ pc = "ex3_predict"
    /\ \E r \in Outcomes :
         /\ outcome' = [outcome EXCEPT !["predict3"] = r]
         /\ trace' = trace \o <<CallEv(3, "predict3", client + 1)>> \o
                (IF r = "ok"
                 THEN <<Line(3, "forecast", "predict3")>>
                 ELSE <<Line(3, "error", "predict3")>>)
    /\ client' = client + 1
    /\ pc' = After(3)
    /\ UNCHANGED <<exc, returned>>

(* Example 3: client.predict(ts_data, model="chronos-t5-small").           *)
Ex3Predict ==
    /\ pc = "ex3_predict"
    /\ \E r \in Outcomes :
         /\ outcome' = [outcome EXCEPT !["predict3"] = r]
         /\ trace' = trace \o <<CallEv(3, "predict3", client)>> \o
                (IF r = "ok"
                 THEN <<Line(3, "forecast", "predict3")>>
                 ELSE <<ErrorLine(3, "predict3")>>)
    /\ pc' = After(3)
    /\ UNCHANGED <<client, exc, returned>>

(* Example 4: header and rule.                                             *)
Ex4Header ==
    /\ pc = "ex4_header"
    /\ trace' = trace \o <<Line(4, "header", ""), Line(4, "rule", "")>>
    /\ pc' = "ex4_chronos"
    /\ UNCHANGED <<client, outcome, exc, returned>>

(* Example 4: client.predict(model="chronos-t5-small") in the outer try.   *)
Ex4Chronos ==
    /\ pc = "ex4_chronos"
    /\ \E r \in Outcomes :
         /\ outcome' = [outcome EXCEPT !["predict4a"] = r]
         /\ trace' = trace \o <<CallEv(4, "predict4a", client)>> \o
                (IF r = "ok"
                 THEN <<Line(4, "forecast", "predict4a")>>
                 ELSE <<ErrorLine(4, "predict4a")>>)
         /\ pc' = IF r = "ok" THEN "ex4_toto" ELSE After(4)
    /\ UNCHANGED <<client, exc, returned>>

(* Variant of Ex4Toto: the inner handler prints the warning and lets the   *)
(* exception reach the outer handler as well.                              *)
Ex4Toto_Reraise ==
    /\ pc = "ex4_toto"
    /\ \E r \in Outcomes :
         /\ outcome' = [outcome EXCEPT !["predict4b"] = r]
         /\ trace' = trace \o <<CallEv(4, "predict4b", client)>> \o
                (IF r = "ok"
                 THEN <<Line(4, "forecast", "predict4b")>>
                 ELSE <<Line(4, "warning", "predict4b"),
                        Line(4, "error", "predict4b")>>)
    /\ pc' = After(4)
    /\ UNCHANGED <<client, exc, returned>>

(* Example 4: client.predict(model="toto-open-base-1.0") in the inner try; *)
(* the inner handler prints the warning and the outer try ends normally.   *)
Ex4Toto ==
    /\ pc = "ex4_toto"
    /\ \E r \in Outcomes :
         /\ outcome' = [outcome EXCEPT !["predict4b"] = r]
         /\ trace' = trace \o <<CallEv(4, "predict4b", client)>> \o
                (IF r = "ok"
                 THEN <<Line(4, "forecast", "predict4b")>>
                 ELSE <<Line(4, "warning", "predict4b")>>)
    /\ pc' = After(4)
    /\ UNCHANGED <<client, exc, returned>>

(* Example 5: header and rule.                                             *)
Ex5Header ==
    /\ pc = "ex5_header"
    /\ trace' = trace \o <<Line(5, "header", ""), Line(5, "rule", "")>>
    /\ pc' = "ex5_health_check"
    /\ UNCHANGED <<client, outcome, exc, returned>>

(* Example 5: health = client.health_check(); health line.                 *)
Ex5HealthCheck ==
    /\ pc = "ex5_health_check"
    /\ \E r \in Outcomes :
         /\ outcome' = [outcome EXCEPT !["health_check"] = r]
         /\ trace' = trace \o <<CallEv(5, "health_check", client)>> \o
                (IF r = "ok"
                 THEN <<Line(5, "health", "health_check")>>
                 ELSE <<ErrorLine(5, "health_check")>>)
         /\ pc' = IF r = "ok" THEN "ex5_model_info" ELSE After(5)
    /\ UNCHANGED <<client, exc, returned>>

(* Example 5: info = client.get_model_info("chronos-t5-small"); info line. *)
Ex5ModelInfo ==
    /\ pc = "ex5_model_info"
    /\ \E r \in Outcomes :
         /\ outcome' = [outcome EXCEPT !["get_model_info"] = r]
         /\ trace' = trace \o <<CallEv(5, "get_model_info", client)>> \o
                (IF r = "ok"
                 THEN <<Line(5, "info", "get_model_info")>>
                 ELSE <<ErrorLine(5, "get_model_info")>>)
    /\ pc' = After(5)
    /\ UNCHANGED <<client, exc, returned>>

(* Variant of MainEpilogue: the completion line sits inside the try block  *)
(* of Example 5, so it is printed only when get_model_info returned.       *)
MainEpilogue_InsideTry ==
    /\ pc = "main_epilogue"
    /\ trace' = trace \o (IF outcome["get_model_info"] = "ok"
                          THEN <<Line(0, "completed", "")>>
                          ELSE << >>)
    /\ returned' = returned \cup {"main"}
    /\ pc' = "pandas_header"
    /\ UNCHANGED <<client, outcome, exc>>

(* main(): print "All examples completed!" and return to the __main__      *)
(* block, which calls pandas_example().                                    *)
MainEpilogue ==
    /\ pc = "main_epilogue"
    /\ trace' = trace \o <<Line(0, "completed", "")>>
    /\ returned' = returned \cup {"main"}
    /\ pc' = "pandas_header"
    /\ UNCHANGED <<client, outcome, exc>>

(* pandas_example(): title, rule, local sales Series, its last five days.  *)
PandasHeader ==
    /\ pc = "pandas_header"
    /\ trace' = trace \o <<Line(6, "header", ""), Line(6, "rule", ""),
                           Line(6, "sample_title", ""), Line(6, "sample", "")>>
    /\ pc' = "pandas_predict"
    /\ UNCHANGED <<client, outcome, exc, returned>>

(* pandas_example(): response = predict(sales_data, ...); forecast line.   *)
PandasPredict ==
    /\ pc = "pandas_predict"
    /\ \E r \in Outcomes :
         /\ outcome' = [outcome EXCEPT !["predictP"] = r]
         /\ trace' = trace \o <<CallEv(6, "predictP", 0)>> \o
                (IF r = "ok"
                 THEN <<Line(6, "forecast", "predictP")>>
                 ELSE <<ErrorLine(6, "predictP")>>)
         /\ pc' = IF r = "ok" THEN "pandas_to_pandas" ELSE After(6)
    /\ UNCHANGED <<client, exc, returned>>

(* pandas_example(): forecast_df = response.to_pandas(); title and frame.  *)
PandasToPandas ==
    /\ pc = "pandas_to_pandas"
    /\ \E r \in Outcomes :
         /\ outcome' = [outcome EXCEPT !["to_pandas"] = r]
         /\ trace' = trace \o <<CallEv(6, "to_pandas", 0)>> \o
                (IF r = "ok"
                 THEN <<Line(6, "frame_title", "to_pandas"),
                        Line(6, "frame", "to_pandas")>>
                 ELSE <<ErrorLine(6, "to_pandas")>>)
    /\ pc' = After(6)
    /\ UNCHANGED <<client, exc, returned>>

(* pandas_example() returns; the __main__ block and the script end.        *)
PandasReturn ==
    /\ pc = "pandas_return"
    /\ returned' = returned \cup {"pandas_example"}
    /\ pc' = "exit"
    /\ UNCHANGED <<client, outcome, trace, exc>>

Next ==
    \/ ScriptStart
    \/ MainPrologue
    \/ Ex1Header
    \/ Ex1Predict
    \/ Ex2Header
    \/ Ex2Construct
    \/ Ex2ListModels
    \/ Ex2Predict
    \/ Ex2PredictCI
    \/ Ex3Header
    \/ Ex3Prepare
    \/ Ex3Predict
    \/ Ex4Header
    \/ Ex4Chronos
    \/ Ex4Toto
    \/ Ex5Header
    \/ Ex5HealthCheck
    \/ Ex5ModelInfo
    \/ MainEpilogue
    \/ PandasHeader
    \/ PandasPredict
    \/ PandasToPandas
    \/ PandasReturn

Spec == Init /\ [][Next]_vars

TypeOK ==
    /\ client \in 0..1
    /\ outcome \in [Sites -> {"none", "ok", "raise"}]
    /\ exc \in {"none", "construct"}
    /\ returned \subseteq {"main", "pandas_example"}

(***************************************************************************)
(* Structure of the script used to state the properties.                   *)
(***************************************************************************)
Examples == 1..6

(* The external calls inside the try block of each example, in order.      *)
TrySites(ex) ==
    CASE ex = 1 -> <<"predict1">>
      [] ex = 2 -> <<"list_models", "predict2a", "predict2b">>
      [] ex = 3 -> <<"predict3">>
      [] ex = 4 -> <<"predict4a", "predict4b">>
      [] ex = 5 -> <<"health_check", "get_model_info">>
      [] ex = 6 -> <<"predictP", "to_pandas">>

(* The first external call an example makes.                               *)
FirstSite(ex) == IF ex = 2 THEN "construct" ELSE TrySites(ex)[1]

(* Every external call of an example, the construction included.           *)
SitesOf(ex) ==
    {TrySites(ex)[k] : k \in DOMAIN TrySites(ex)} \cup
    (IF ex = 2 THEN {"construct"} ELSE {})

ExOf(site) == CHOOSE ex \in Examples : site \in SitesOf(ex)

(* The ten remote operations of a run.                                     *)
RemoteSites == GlobalSites \cup BoundSites

(***************************************************************************)
(* Observations on the history.                                            *)
(***************************************************************************)
Idx == DOMAIN trace

Calls(site) == {i \in Idx : trace[i].kind = "call" /\ trace[i].what = site}

Called(site) == Calls(site) # {}

Lines(ex, what) ==
    {i \in Idx : trace[i].kind = "print" /\ trace[i].ex = ex /\ trace[i].what = what}

(* Lines that carry a caught exception: the handlers' error lines and the  *)
(* inner handler's warning of Example 4.                                   *)
FailureLines(ex) == Lines(ex, "error") \cup Lines(ex, "warning")

(* Lines that show a value taken from a response of site.                  *)
ResponseLines(site) ==
    {i \in Idx : trace[i].kind = "print" /\ trace[i].of = site
                 /\ trace[i].what \notin {"error", "warning"}}

Executed(ex) == \E i \in Idx : trace[i].ex = ex

Raised(ex) == \E s \in SitesOf(ex) : outcome[s] = "raise"

Terminated == pc = "exit"

(* The last statement of the example's try block has finished, or one of   *)
(* its handlers has reported an exception.                                 *)
Finished(ex) ==
    \/ FailureLines(ex) # {}
    \/ CASE ex = 1 -> Lines(1, "metadata") # {}
         [] ex = 2 -> ResponseLines("predict2b") # {}
         [] ex = 3 -> ResponseLines("predict3") # {}
         [] ex = 4 -> ResponseLines("predict4b") # {}
         [] ex = 5 -> Lines(5, "info") # {}
         [] ex = 6 -> Lines(6, "frame") # {}

(***************************************************************************)
(* C1.  The script runs to completion whatever the external operations do: *)
(* when the script has ended, main() and pandas_example() have both        *)
(* returned normally and no exception has propagated out of either.        *)
(***************************************************************************)
C1_RunsToCompletion ==
    Terminated => (returned = {"main", "pandas_example"} /\ exc = "none")

(***************************************************************************)
(* C2.  No example's failure prevents later examples from executing: when  *)
(* the script has ended, for every pair of examples i < j where a call of  *)
(* example i raised, the first external call of example j was attempted.   *)
(***************************************************************************)
C2_FailureDoesNotStopLaterExamples ==
    Terminated =>
        \A i \in Examples, j \in Examples :
            (i < j /\ Raised(i)) => Called(FirstSite(j))

(***************************************************************************)
(* C3.  Each executed example has printed, by the end of the run, at least *)
(* one success line carrying response.forecast or one failure line         *)
(* carrying the caught exception.                                          *)
(***************************************************************************)
C3_ForecastOrFailureLine ==
    Terminated =>
        \A ex \in Examples :
            Executed(ex) => (Lines(ex, "forecast") # {} \/ FailureLines(ex) # {})

(***************************************************************************)
(* C4.  Every Exception raised by an external client operation is caught   *)
(* inside the example that invoked it: it does not propagate, exactly one  *)
(* failure line of that example carries it, and that line precedes every   *)
(* call of a later example.                                                *)
(***************************************************************************)
C4_EveryExceptionCaughtAndReported ==
    \A s \in Sites :
        outcome[s] = "raise" =>
            /\ exc = "none"
            /\ Cardinality({i \in FailureLines(ExOf(s)) : trace[i].of = s}) = 1
            /\ \A i \in FailureLines(ExOf(s)), j \in Idx :
                   (trace[i].of = s /\ trace[j].kind = "call"
                    /\ trace[j].ex > ExOf(s)) => i < j

(***************************************************************************)
(* C5.  No call is retried: every external call site is invoked at most    *)
(* once in a run, so a run makes at most one construction, ten remote      *)
(* operations and one to_pandas; a site that raised was invoked exactly    *)
(* once.                                                                   *)
(***************************************************************************)
C5_NoRetry ==
    /\ \A s \in Sites : Cardinality(Calls(s)) <= 1
    /\ \A s \in Sites : outcome[s] = "raise" => Cardinality(Calls(s)) = 1
    /\ Cardinality({i \in Idx : trace[i].kind = "call"
                                /\ trace[i].what = "construct"}) <= 1
    /\ Cardinality({i \in Idx : trace[i].kind = "call"
                                /\ trace[i].what \in RemoteSites}) <= 10
    /\ Cardinality({i \in Idx : trace[i].kind = "call"
                                /\ trace[i].what = "to_pandas"}) <= 1

(* A complete run that made all ten remote operations, the construction    *)
(* and to_pandas, two of the calls having raised.                          *)
C5_Witness ==
    /\ Terminated
    /\ \A s \in Sites : Called(s)
    /\ outcome["predict3"] = "raise"
    /\ outcome["to_pandas"] = "raise"

(***************************************************************************)
(* C6.  Examples run strictly in sequence, in the order 1, 2, 3, 4, 5 of   *)
(* main and then pandas_example: the events of the examples appear in      *)
(* nondecreasing example order, no example is skipped, an example has      *)
(* finished (last statement done, or exception reported by its handler)    *)
(* before anything of a later example happens, and pandas_example starts   *)
(* only after main has printed its last line and returned.                 *)
(***************************************************************************)
C6_StrictSequence ==
    /\ \A i \in Idx, j \in Idx :
           (i < j /\ trace[i].ex >= 1 /\ trace[j].ex >= 1)
               => trace[i].ex <= trace[j].ex
    /\ \A a \in Examples, b \in Examples :
           (a < b /\ Executed(b)) =>
               /\ Executed(a)
               /\ Finished(a)
               /\ \A i \in Idx, j \in Idx :
                      (trace[i].ex = a /\ trace[j].ex = b) => i < j
    /\ Executed(6) =>
           /\ "main" \in returned
           /\ \A i \in Lines(0, "completed"), j \in Idx :
                  (trace[j].ex = 6 => i < j) /\ (trace[j].ex = 5 => j < i)

(* A complete run through all six examples in which two of them raised.    *)
C6_Witness ==
    /\ Terminated
    /\ \A ex \in Examples : Executed(ex)
    /\ outcome["list_models"] = "raise"
    /\ outcome["health_check"] = "raise"

(***************************************************************************)
(* C7.  A failure inside an example's try block aborts the rest of that    *)
(* block: no later call of the block is made, no line of a later response  *)
(* is printed, and the example prints exactly one failure line.  A call    *)
(* of a block is made only if the call before it returned.  The success    *)
(* lines of the calls that returned remain.                                *)
(***************************************************************************)
C7_FailureAbortsRestOfExample ==
    \A ex \in Examples :
        \A k \in DOMAIN TrySites(ex) :
            /\ outcome[TrySites(ex)[k]] = "raise" =>
                   /\ \A m \in DOMAIN TrySites(ex) :
                          m > k => /\ ~Called(TrySites(ex)[m])
                                   /\ ResponseLines(TrySites(ex)[m]) = {}
                   /\ ResponseLines(TrySites(ex)[k]) = {}
                   /\ Cardinality(FailureLines(ex)) = 1
            /\ (k > 1 /\ Called(TrySites(ex)[k])) =>
                   outcome[TrySites(ex)[k - 1]] = "ok"
            /\ outcome[TrySites(ex)[k]] = "ok" =>
                   ResponseLines(TrySites(ex)[k]) # {}

(* Example 2 has printed a success line and then a failure line.           *)
C7_Witness ==
    /\ outcome["predict2a"] = "ok"
    /\ outcome["predict2b"] = "raise"
    /\ Lines(2, "forecast") # {}
    /\ Lines(2, "error") # {}

(***************************************************************************)
(* C8.  Example 4: the TOTO predict is attempted only after the Chronos    *)
(* predict returned and its success line was printed; a TOTO failure       *)
(* prints the warning and not the outer error line; a Chronos failure      *)
(* prints the outer error line and the TOTO predict is not attempted; the  *)
(* warning and the outer error line never both appear.                     *)
(***************************************************************************)
C8_InnerHandlerContainsToto ==
    /\ \A j \in Calls("predict4b") :
           /\ outcome["predict4a"] = "ok"
           /\ \E i \in ResponseLines("predict4a") : i < j
    /\ outcome["predict4b"] = "raise" =>
           /\ Cardinality(Lines(4, "warning")) = 1
           /\ Lines(4, "error") = {}
    /\ outcome["predict4a"] = "raise" =>
           /\ Cardinality(Lines(4, "error")) = 1
           /\ ~Called("predict4b")
    /\ ~(Lines(4, "warning") # {} /\ Lines(4, "error") # {})

(* The TOTO predict raised after the Chronos predict returned.             *)
C8_Witness ==
    /\ outcome["predict4a"] = "ok"
    /\ outcome["predict4b"] = "raise"
    /\ Lines(4, "warning") # {}

(***************************************************************************)
(* C9.  Every bound client operation is invoked only after the single      *)
(* SimpleTSFMClient() construction has returned, and on that one instance; *)
(* a failed bound call leaves the client bound, so the later examples of   *)
(* main still call it.  The global predict calls use no client instance,   *)
(* and the one of Example 1 runs before any client exists.                 *)
(***************************************************************************)
C9_OneClientInstance ==
    /\ Cardinality(Calls("construct")) <= 1
    /\ \A i \in Idx :
           (trace[i].kind = "call" /\ trace[i].what \in BoundSites) =>
               /\ outcome["construct"] = "ok"
               /\ \E j \in Calls("construct") : j < i
               /\ trace[i].inst = 1
    /\ outcome["construct"] = "ok" => client = 1
    /\ \A s \in BoundSites :
           (outcome[s] = "raise" /\ Terminated) =>
               \A ex \in Examples :
                   (ExOf(s) < ex /\ ex <= 5) => Called(FirstSite(ex))
    /\ \A i \in Idx :
           (trace[i].kind = "call" /\ trace[i].what \in GlobalSites) =>
               trace[i].inst = 0
    /\ \A i \in Calls("predict1"), j \in Calls("construct") : i < j

(* Bound calls of Examples 2, 3 and 4 raised and Example 5 still used the  *)
(* client.                                                                 *)
C9_Witness ==
    /\ outcome["list_models"] = "raise"
    /\ outcome["predict3"] = "raise"
    /\ outcome["predict4a"] = "raise"
    /\ Called("get_model_info")
    /\ Called("predict1")

(***************************************************************************)
(* C10.  "All examples completed!" is printed at most once, only after     *)
(* Example 5 has finished, only if the construction returned, and always   *)
(* by the end of a run whose construction returned, whatever the examples  *)
(* did.                                                                    *)
(***************************************************************************)
C10_CompletedLine ==
    /\ Cardinality(Lines(0, "completed")) <= 1
    /\ \A i \in Lines(0, "completed") :
           /\ Finished(5)
           /\ \A j \in Idx : trace[j].ex = 5 => j < i
           /\ outcome["construct"] = "ok"
    /\ (Terminated /\ outcome["construct"] = "ok") =>
           Lines(0, "completed") # {}

(* The line is printed in a run where every example of main printed a      *)
(* failure line and no remote operation returned.                          *)
C10_Witness ==
    /\ Lines(0, "completed") # {}
    /\ \A ex \in 1..5 : Lines(ex, "error") # {}
    /\ \A s \in RemoteSites : outcome[s] # "ok"
====
